---- MODULE Spec2Model ----
(***************************************************************************)
(* Model of the stock data pipeline: the clean service                     *)
(* (src/data-clean/app.py), the ingest service (src/data-ingest/app.py),   *)
(* the shared data directory and the Redis data_pipeline channel.          *)
(*                                                                         *)
(* A file name is a record [segs, ext]: segs is the basename split at '_'  *)
(* and ext the extension, so stock_quotes_20240101_120000.csv is           *)
(* [segs |-> <<"stock","quotes","20240101","120000">>, ext |-> "csv"].     *)
(* No segment of the names used here contains '_' or '.', and none ends    *)
(* with another segment, so Python's substring operations (str.replace,    *)
(* in, split) act on whole segments.                                       *)
(***************************************************************************)
EXTENDS Integers, Sequences, FiniteSets, TLC

(* ---------------------------------------------------------------------- *)
(* Bounds of the model                                                     *)
(* ---------------------------------------------------------------------- *)
\* restarts, fetches, foreign publishes and I/O faults the environment produces in a run
MaxEnvEvents == 2
\* rows of the datasets whose cells are enumerated
MaxRows == 3
\* rows beyond the indicator threshold of the long datasets
MaxExtraRows == 5

(* ---------------------------------------------------------------------- *)
(* File names                                                              *)
(* ---------------------------------------------------------------------- *)
MkName(segs, ext) == [segs |-> segs, ext |-> ext]

QuotePrefix == <<"stock", "quotes">>
HistoricalPrefix == <<"stock", "historical">>
ProcessedPrefix == <<"processed">>

\* the string of segs begins with pat followed by '_' (pat ends in '_' in the code)
StartsWith(segs, pat) ==
    /\ Len(segs) > Len(pat)
    /\ SubSeq(segs, 1, Len(pat)) = pat

\* glob.glob("<pat>_*.<ext>") on one name
GlobMatch(name, pat, ext) == name.ext = ext /\ StartsWith(name.segs, pat)

\* the substring "<pat>_" occurs at segment i
OccursAt(segs, pat, i) ==
    /\ i + Len(pat) <= Len(segs)
    /\ SubSeq(segs, i, i + Len(pat) - 1) = pat

\* "<pat>_" in s
Contains(segs, pat) == \E i \in 1..Len(segs) : OccursAt(segs, pat, i)

\* s.replace("<pat>_", ""): every non-overlapping occurrence, left to right
RECURSIVE ReplaceFrom(_, _, _)
ReplaceFrom(segs, pat, i) ==
    IF i > Len(segs) THEN <<>>
    ELSE IF OccursAt(segs, pat, i)
         THEN ReplaceFrom(segs, pat, i + Len(pat))
         ELSE <<segs[i]>> \o ReplaceFrom(segs, pat, i + 1)

Replace(segs, pat) == ReplaceFrom(segs, pat, 1)

\* os.path.basename(f).replace("<pat>_", "").replace(".csv", "")
BaseName(name, pat) == Replace(name.segs, pat)

\* base_name.split('_')[-1].replace('.csv', '')
Timestamp(name) == name.segs[Len(name.segs)]

\* 'quotes' if 'stock_quotes_' in file_path else 'historical'
FileType(name) == IF Contains(name.segs, QuotePrefix) THEN "quotes" ELSE "historical"

\* processed_<file_type>_<timestamp>.csv
OutputFile(name) == MkName(<<"processed", FileType(name), Timestamp(name)>>, "csv")

\* processing_summary_<file_type>_<timestamp>.json
SummaryFile(name) ==
    MkName(<<"processing", "summary", FileType(name), Timestamp(name)>>, "json")

\* stock_processing_summary.json
SummaryPath == MkName(<<"stock", "processing", "summary">>, "json")

(* ---------------------------------------------------------------------- *)
(* State                                                                   *)
(* ---------------------------------------------------------------------- *)
VARIABLES
    raw,              \* input files of the data directory: name -> "good" | "bad" (unreadable or malformed) | "partial" (being written)
    outputs,          \* per-file artifacts written by the clean service: name -> input it was made from
    batch_summary,    \* stock_processing_summary.json
    status_store,     \* Redis hash data_clean_status: field -> value
    queue,            \* messages waiting in the clean service's pubsub
    clean_pc,         \* position of the clean service
    attempt,          \* connect_redis: loop variable
    caller,           \* who called process_all_files: "startup" (run) | "listen" (listen_for_events)
    unprocessed_files,\* process_all_files: local
    idx,              \* process_all_files: position of the for loop
    processed_files,  \* process_all_files: local (input_file of each success)
    results,          \* what process_stock_data returned for each file of this cycle
    cycle,            \* record of what the current/last cycle did (see NoCycle)
    last_msg,         \* what get_message returned in the current loop iteration
    history,          \* record of what has happened to each input over the whole run
    env_events,       \* restarts, fetches, foreign publishes and I/O faults so far
    ingest_pc,        \* position of the ingest service
    ingest_status,    \* statuses the ingest service wrote in its current/last fetch
    fetches,          \* fetches of the ingest service so far
    frame_pc,         \* process_stock_data on one dataset: the stage it is at
    input_df,         \* process_stock_data: the dataset as read by pd.read_csv
    df,               \* process_stock_data: local
    processing_stats  \* process_stock_data: local

vars == <<raw, outputs, batch_summary, status_store, queue, clean_pc, attempt, caller,
          unprocessed_files, idx, processed_files, results, cycle, last_msg, history,
          env_events, ingest_pc, ingest_status, fetches, frame_pc, input_df, df, processing_stats>>

cleanLocals == <<attempt, caller, unprocessed_files, idx, processed_files, results, cycle,
                 last_msg>>
ingestVars == <<ingest_pc, ingest_status, fetches>>
diskVars == <<raw, outputs, batch_summary>>
frameVars == <<frame_pc, input_df, df, processing_stats>>
pipelineVars == <<diskVars, status_store, queue, clean_pc, cleanLocals, history, env_events,
                  ingestVars>>

\* the listing of the shared data directory
Directory == DOMAIN raw \cup DOMAIN outputs
                \cup (IF batch_summary.written THEN {SummaryPath} ELSE {})

(* ---------------------------------------------------------------------- *)
(* Work discovery: find_unprocessed_files                                  *)
(* ---------------------------------------------------------------------- *)
\* the orders of the elements of S
RECURSIVE Orders(_)
Orders(S) ==
    IF S = {} THEN {<<>>} ELSE UNION {{<<x>> \o s : s \in Orders(S \ {x})} : x \in S}

\* a listing that may leave files of S out
PermsOfSome(S) == UNION {Orders(T) : T \in SUBSET S}

\* every order in which glob may list the files of S
Perms(S) == Orders(S)

\* processed_names: "processed_" and ".csv" stripped from every processed_*.csv
ProcessedNames(dir) ==
    {BaseName(pf, ProcessedPrefix) : pf \in {n \in dir : GlobMatch(n, ProcessedPrefix, "csv")}}

\* base_name not in processed_names, for an input globbed with prefix pat
NotProcessed(name, pat, dir) == BaseName(name, pat) \notin ProcessedNames(dir)

UnprocessedOf(pat, dir) ==
    {n \in dir : GlobMatch(n, pat, "csv") /\ NotProcessed(n, pat, dir)}

\* historical files taken first
FindHistoricalFirst(dir) ==
    {h \o q : q \in Perms(UnprocessedOf(QuotePrefix, dir)),
              h \in Perms(UnprocessedOf(HistoricalPrefix, dir))}

\* the lists find_unprocessed_files may return: quote files, then historical files
FindUnprocessedFiles(dir) ==
    {q \o h : q \in Perms(UnprocessedOf(QuotePrefix, dir)),
              h \in Perms(UnprocessedOf(HistoricalPrefix, dir))}

(* ---------------------------------------------------------------------- *)
(* Status store and event bus                                              *)
(* ---------------------------------------------------------------------- *)
\* redis hset(key, mapping=status_data): sets the given fields, keeps the others
\* (update_status logs and swallows a RedisError of hset; that case is not modelled,
\* the properties below speak of the update_status calls)
HSet(store, status_data) ==
    [k \in DOMAIN store \cup DOMAIN status_data |->
        IF k \in DOMAIN status_data THEN status_data[k] ELSE store[k]]

\* the timestamp field is the wall clock and is left out of the records
StatusStarted == [status |-> "started", message |-> "Data clean service started"]
StatusProcessing == [status |-> "processing", message |-> "Starting stock data processing"]
StatusIdleMissing == [status |-> "processing", message |-> "No files to process"]
StatusIdle == [status |-> "idle", message |-> "No files to process"]
\* (the values of processed_files, average_quality_score and message are not modelled)
StatusCompleted(n) ==
    [status |-> "completed", files_processed |-> n, processed_files |-> "names",
     average_quality_score |-> "score", message |-> "Successfully processed files"]
StatusErrorNone ==
    [status |-> "error", message |-> "No files could be processed successfully"]
StatusErrorExc == [status |-> "error", message |-> "Error during processing"]

\* payloads on the channel: the JSON text, by its shape and its event field
\* ("" stands for an object without an event field)
Payload(shape, event) == [json |-> shape, event |-> event]
DataProcessed == Payload("object", "data_processed")
DataCleaned == Payload("object", "data_cleaned")
ComprehensiveDataIngested == Payload("object", "comprehensive_data_ingested")
DataIngested == Payload("object", "data_ingested")

\* what pubsub.get_message returns
SubscribeMsg == [type |-> "subscribe", data |-> Payload("integer", "")]
Message(data) == [type |-> "message", data |-> data]
NoMsg == [type |-> "none", data |-> Payload("none", "")]

\* json.loads raises JSONDecodeError on text that is not JSON
JsonDecodeError(data) == data.json = "invalid"
\* event_data.get raises AttributeError unless the parsed value is a dict
HasGet(data) == data.json = "object"
IsAnyEvent(data) == data.event # ""

\* event_data.get('event') == 'data_ingested'
IsDataIngested(data) == data.event = "data_ingested"

(* ---------------------------------------------------------------------- *)
(* Data frames                                                             *)
(* ---------------------------------------------------------------------- *)
\* a cell: NaN, the number num/den, or a string
Null == [kind |-> "null", num |-> 0, den |-> 1, text |-> ""]
Ratio(n, d) == [kind |-> "num", num |-> n, den |-> d, text |-> ""]
Num(v) == Ratio(v, 1)
Text(t) == [kind |-> "str", num |-> 0, den |-> 1, text |-> t]
\* a number the value of which is not modelled (den = 0)
Computed == Ratio(0, 0)
IsNull(cell) == cell.kind = "null"
\* x / 2
Half(x) == IF x % 2 = 0 THEN Num(x \div 2) ELSE Ratio(x, 2)

\* a DataFrame: len(df), and every column as the sequence of its cells
NoFrame == [n |-> 0, col |-> <<>>]
Columns(f) == DOMAIN f.col
Row(f, i) == [c \in Columns(f) |-> f.col[c][i]]
Indices(n) == [i \in 1..n |-> i]
Reverse(s) == [i \in 1..Len(s) |-> s[Len(s) + 1 - i]]

\* the rows keep of f, in that order
Select(f, keep) ==
    [n |-> Len(keep),
     col |-> [c \in Columns(f) |-> [k \in 1..Len(keep) |-> f.col[c][keep[k]]]]]

\* df.drop_duplicates(): the first of equal rows stays (NaN equals NaN)
FirstOccurrence(f, i) == \A j \in 1..(i - 1) : Row(f, j) # Row(f, i)
DropDuplicates(f) ==
    Select(f, SelectSeq(Indices(f.n), LAMBDA i : FirstOccurrence(f, i)))

\* df.select_dtypes(include=[np.number]).columns: read_csv gives a column a numeric
\* dtype when all its values are numbers or missing (float64 if all are missing), and
\* object when it holds a string or the file has no data row
IsNumeric(f, c) == f.n > 0 /\ \A i \in 1..f.n : f.col[c][i].kind \in {"null", "num"}
\* every column taken as numeric
AllColumns(f) == Columns(f)
NumericColumns(f) == {c \in Columns(f) : IsNumeric(f, c)}

\* df[cols].isnull().sum().sum()
NullCount(f, cols) == Cardinality({p \in cols \X (1..f.n) : IsNull(f.col[p[1]][p[2]])})

\* fillna(method='ffill'): left to right, a missing cell takes the last value seen
RECURSIVE FFillFrom(_, _, _)
FFillFrom(s, i, last) ==
    IF i > Len(s) THEN <<>>
    ELSE LET cell == IF IsNull(s[i]) THEN last ELSE s[i]
         IN <<cell>> \o FFillFrom(s, i + 1, cell)
\* no forward fill
NoFFill(s) == s
FFill(s) == FFillFrom(s, 1, Null)
\* no backward fill
NoBFill(s) == s
\* fillna(method='bfill'): the same from right to left
BFill(s) == Reverse(FFill(Reverse(s)))

\* the numbers of a column of integers, in ascending order
RECURSIVE SortValues(_)
SortValues(S) ==
    IF S = {} THEN <<>>
    ELSE LET i == CHOOSE i \in S : \A j \in S : i[2] < j[2] \/ (i[2] = j[2] /\ i[1] <= j[1])
         IN <<i[2]>> \o SortValues(S \ {i})
Values(s) == SortValues({<<i, s[i].num>> : i \in {j \in 1..Len(s) : ~IsNull(s[j])}})

\* Series.median(): NaN are skipped; NaN if nothing is left
Median(s) ==
    LET v == Values(s)
        k == Len(v)
    IN IF k = 0 THEN Null
       ELSE IF k % 2 = 1 THEN Num(v[(k + 1) \div 2])
       ELSE Half(v[k \div 2] + v[k \div 2 + 1])

\* fillna(value)
FillNa(s, value) == [i \in 1..Len(s) |-> IF IsNull(s[i]) THEN value ELSE s[i]]

PriceColumns ==
    {"current_price", "high_price", "low_price", "open_price", "close", "high", "low", "open"}

\* the body of the loop over numeric_columns
ImputeColumn(c, s) ==
    IF c \in PriceColumns THEN BFill(FFill(s)) ELSE FillNa(s, Median(s))

\* the loop over numeric_columns
Impute(f) ==
    [f EXCEPT !.col = [c \in Columns(f) |->
                          IF c \in NumericColumns(f) THEN ImputeColumn(c, f.col[c])
                          ELSE f.col[c]]]

\* the sum of the numbers s[lo..hi]
RECURSIVE SumNum(_, _, _)
SumNum(s, lo, hi) == IF lo > hi THEN 0 ELSE s[lo].num + SumNum(s, lo + 1, hi)

\* rolling(window=w): a value where the window holds w observations, none missing
HasWindow(s, i, w) == i >= w /\ \A k \in (i - w + 1)..i : ~IsNull(s[k])
\* a mean over the rows there are, from the first row on
RollingMeanPartial(s, w) ==
    [i \in 1..Len(s) |-> IF IsNull(s[i]) THEN Null ELSE Ratio(SumNum(s, 1, i), i)]
RollingMean(s, w) ==
    [i \in 1..Len(s) |-> IF HasWindow(s, i, w) THEN Ratio(SumNum(s, i - w + 1, i), w) ELSE Null]
RollingStd(s, w) == [i \in 1..Len(s) |-> IF HasWindow(s, i, w) THEN Computed ELSE Null]

\* ewm(span=..).mean(): a value from the first observation on
Ewm(s) ==
    [i \in 1..Len(s) |-> IF \E k \in 1..i : ~IsNull(s[k]) THEN Computed ELSE Null]

\* a - b and a + b of two computed series
Combine(a, b) ==
    [i \in 1..Len(a) |-> IF IsNull(a[i]) \/ IsNull(b[i]) THEN Null ELSE Computed]

\* Series.diff()
Diff(s) ==
    [i \in 1..Len(s) |->
        IF i = 1 \/ IsNull(s[i]) \/ IsNull(s[i - 1]) THEN Null
        ELSE Num(s[i].num - s[i - 1].num)]
\* delta.where(delta > 0, 0) and -delta.where(delta < 0, 0)
Gains(delta) ==
    [i \in 1..Len(delta) |->
        IF ~IsNull(delta[i]) /\ delta[i].num > 0 THEN delta[i] ELSE Num(0)]
\* the negative deltas with their sign
LossesSigned(delta) ==
    [i \in 1..Len(delta) |->
        IF ~IsNull(delta[i]) /\ delta[i].num < 0 THEN delta[i] ELSE Num(0)]
Losses(delta) ==
    [i \in 1..Len(delta) |->
        IF ~IsNull(delta[i]) /\ delta[i].num < 0 THEN Num(0 - delta[i].num) ELSE Num(0)]
\* rs = gain / loss; 100 - (100 / (1 + rs)): 0/0 is NaN, gain/0 is inf and gives 100
Rsi(gain, loss) ==
    [i \in 1..Len(gain) |->
        IF IsNull(gain[i]) \/ IsNull(loss[i]) THEN Null
        ELSE IF loss[i].num = 0 THEN (IF gain[i].num = 0 THEN Null ELSE Num(100))
        ELSE Ratio(100 * gain[i].num, gain[i].num + loss[i].num)]

\* Series.pct_change()
PctChange(s) ==
    [i \in 1..Len(s) |->
        IF i = 1 \/ IsNull(s[i]) \/ IsNull(s[i - 1]) THEN Null
        ELSE IF s[i - 1].num = 0 THEN Computed
        ELSE Ratio(s[i].num - s[i - 1].num, s[i - 1].num)]

\* the columns calculate_technical_indicators assigns, from the close column
Indicators(close) ==
    LET ema_12 == Ewm(close)
        ema_26 == Ewm(close)
        macd == Combine(ema_12, ema_26)
        macd_signal == Ewm(macd)
        delta == Diff(close)
        bb_middle == RollingMean(close, 20)
        bb_std == RollingStd(close, 20)
        daily_return == PctChange(close)
    IN [sma_5 |-> RollingMean(close, 5),
        sma_20 |-> RollingMean(close, 20),
        ema_12 |-> ema_12,
        ema_26 |-> ema_26,
        macd |-> macd,
        macd_signal |-> macd_signal,
        macd_histogram |-> Combine(macd, macd_signal),
        rsi |-> Rsi(RollingMean(Gains(delta), 14), RollingMean(Losses(delta), 14)),
        bb_middle |-> bb_middle,
        bb_upper |-> Combine(bb_middle, bb_std),
        bb_lower |-> Combine(bb_middle, bb_std),
        daily_return |-> daily_return,
        volatility |-> RollingStd(daily_return, 20)]
IndicatorColumns == DOMAIN Indicators(<<>>)

\* calculate_technical_indicators(df); the datasets of the model have no date column
CalculateTechnicalIndicators(f) ==
    IF "close" \notin Columns(f) THEN f
    ELSE [f EXCEPT !.col = Indicators(f.col["close"]) @@ f.col]

IndicatorThreshold == 20

\* the indicator stage without its condition on the number of rows
WantsIndicatorsAnyLength(f) == "close" \in Columns(f)

\* if 'close' in df.columns and len(df) > 20
WantsIndicators(f) == "close" \in Columns(f) /\ f.n > IndicatorThreshold

\* ((current_price - previous_close) / previous_close) * 100 on numpy numbers: a
\* division by zero gives NaN for 0 / 0 and otherwise inf or -inf, written 1/0 and -1/0
ChangePct(cp, pc) ==
    LET n == (cp.num * pc.den - pc.num * cp.den) * 100
        d == pc.num * cp.den
    IN IF d # 0 THEN Ratio(n, d)
       ELSE IF n = 0 THEN Null
       ELSE Ratio(IF n > 0 THEN 1 ELSE 0 - 1, 0)
\* the sentiment of a change n/d, d >= 0; every comparison with NaN is false
Sentiment(change) ==
    IF IsNull(change) THEN "Strong Bearish"
    ELSE IF change.num > 2 * change.den THEN "Strong Bullish"
    ELSE IF change.num > 0 THEN "Bullish"
    ELSE IF change.num > 0 - 2 * change.den THEN "Bearish"
    ELSE "Strong Bearish"

\* the rows the loop over df.iterrows() assigns to
Priced(f, i) == ~IsNull(f.col["current_price"][i]) /\ ~IsNull(f.col["previous_close"][i])
\* iterrows() gives the rows of a dataset with a column of dtype object as Python
\* objects, and the rows of an all-numeric dataset as numpy numbers
ObjectRows(f) == \E c \in Columns(f) : ~IsNumeric(f, c)
\* row['previous_close'] raises KeyError when the column is missing; the division of
\* Python numbers raises ZeroDivisionError when previous_close is 0
AnalysisRaises(f) ==
    /\ "current_price" \in Columns(f)
    /\ f.n > 0
    /\ IF "previous_close" \notin Columns(f) THEN TRUE
       ELSE ObjectRows(f) /\ \E i \in 1..f.n : Priced(f, i) /\ f.col["previous_close"][i].num = 0
\* the data frame after the loop: the two columns exist once a row was assigned to
AddMarketAnalysis(f) ==
    IF \E i \in 1..f.n : Priced(f, i)
    THEN LET change(i) == ChangePct(f.col["current_price"][i], f.col["previous_close"][i])
         IN [f EXCEPT !.col =
                [change_percent_calc |->
                     [i \in 1..f.n |-> IF Priced(f, i) THEN change(i) ELSE Null],
                 sentiment |->
                     [i \in 1..f.n |-> IF Priced(f, i) THEN Text(Sentiment(change(i)))
                                       ELSE Null]] @@ f.col]
    ELSE f

\* round(x, 2) of x = a/b >= 0, in hundredths: half goes to even
RoundHalfEven(a, b) ==
    LET q == a \div b
        r == a % b
    IN IF 2 * r < b THEN q
       ELSE IF 2 * r > b THEN q + 1
       ELSE IF q % 2 = 0 THEN q ELSE q + 1

\* completeness = 1 - nulls / (len(df) * len(df.columns)); round(completeness * 100, 2).
\* The score is in hundredths; 0/0 is NaN
DataQualityScore(f) ==
    LET cells == f.n * Cardinality(Columns(f))
        nulls == NullCount(f, Columns(f))
    IN IF cells = 0 THEN [nan |-> TRUE, hundredths |-> 0]
       ELSE [nan |-> FALSE, hundredths |-> RoundHalfEven(10000 * (cells - nulls), cells)]

\* the entries of processing_stats['steps']
RemoveDuplicatesStep(removed) == [step |-> "remove_duplicates", rows_removed |-> removed]
HandleMissingStep(before, after) ==
    [step |-> "handle_missing_values", missing_before |-> before, missing_after |-> after]
TechnicalIndicatorsStep == [step |-> "technical_indicators"]
MarketAnalysisStep == [step |-> "market_analysis"]

(* ---------------------------------------------------------------------- *)
(* The datasets process_stock_data is run on                               *)
(* ---------------------------------------------------------------------- *)
ClosePrices == {Null, Num(5), Num(7)}
Volumes == {Null, Num(10), Num(30)}
PreviousCloses == {Null, Num(5)}

\* historical records: every dataset of up to MaxRows rows over these cells
ShortHistorical ==
    UNION {{[n |-> n, col |-> [close |-> c, volume |-> v]] :
                c \in [1..n -> ClosePrices], v \in [1..n -> Volumes]} : n \in 0..MaxRows}

\* the symbol column: complete, missing in the first row, missing everywhere
SymbolColumn(kind, n) ==
    [i \in 1..n |-> IF kind = "none" \/ (kind = "first_missing" /\ i = 1) THEN Null
                    ELSE Text("AAPL")]
\* quote records
ShortQuotes ==
    UNION {{[n |-> n, col |-> [symbol |-> SymbolColumn(kind, n), current_price |-> c,
                               previous_close |-> p]] :
                kind \in {"all", "first_missing", "none"},
                c \in [1..n -> ClosePrices], p \in [1..n -> PreviousCloses]} : n \in 0..MaxRows}
\* quote records of a file that has no previous_close column
QuotesWithoutPreviousClose ==
    UNION {{[n |-> n, col |-> [current_price |-> c]] : c \in [1..n -> ClosePrices]} :
               n \in 0..MaxRows}

\* long series: n distinct rows around the indicator threshold, the close rising,
\* falling, flat or alternating, with a missing close in the first row, the last row,
\* every row or none, and the last row written twice or once
Trend(shape, i) ==
    CASE shape = "rising" -> 5 + i
      [] shape = "falling" -> 60 - i
      [] shape = "flat" -> 5
      [] OTHER -> 5 + 2 * (i % 2)
Min(a, b) == IF a < b THEN a ELSE b
LongClose(shape, missing, n, i) ==
    IF \/ missing = "all"
       \/ missing = "first" /\ i = 1
       \/ missing = "last" /\ i = n
    THEN Null
    ELSE Num(Trend(shape, i))
LongHistorical ==
    UNION {{[n |-> n + twice,
             col |-> [close |-> [i \in 1..(n + twice) |->
                                    LongClose(shape, missing, n, Min(i, n))],
                      volume |-> [i \in 1..(n + twice) |-> Num(10 * Min(i, n))]]] :
                shape \in {"rising", "falling", "flat", "alternating"},
                missing \in {"none", "first", "last", "all"},
                twice \in {0, 1}} :
               n \in IndicatorThreshold..(IndicatorThreshold + MaxExtraRows)}
LongQuotes ==
    {[n |-> n, col |-> [symbol |-> SymbolColumn("all", n),
                        current_price |-> [i \in 1..n |-> Num(Trend("rising", i))],
                        previous_close |-> [i \in 1..n |-> Num(Trend("alternating", i))]]] :
         n \in IndicatorThreshold..(IndicatorThreshold + MaxExtraRows)}

\* a long file with the columns of both kinds, a missing close in the first row and
\* the last row written twice
LongCombined ==
    {[n |-> n + 1,
      col |-> [close |-> [i \in 1..(n + 1) |-> LongClose("rising", "first", n, Min(i, n))],
               current_price |-> [i \in 1..(n + 1) |-> Num(Trend("rising", Min(i, n)))],
               previous_close |-> [i \in 1..(n + 1) |-> Num(5)]]] :
         n \in IndicatorThreshold..(IndicatorThreshold + MaxExtraRows)}

\* a historical file of four rows with every second close missing
GappedHistorical ==
    {[n |-> 4, col |-> [close |-> <<Null, Num(5), Null, Num(7)>>,
                        volume |-> <<Num(10), Num(10), Num(30), Num(30)>>]]}

\* quotes at and around the thresholds of the sentiment: changes of -4, -2, 0, 2, 4 %
ThresholdQuotes ==
    {[n |-> 5, col |-> [symbol |-> SymbolColumn("all", 5),
                        current_price |-> <<Num(48), Num(49), Num(50), Num(51), Num(52)>>,
                        previous_close |-> [i \in 1..5 |-> Num(50)]]]}

\* quotes with prices of 0, as the quote API gives them for a symbol it has no data
\* of, with and without the symbol column
ZeroPrices == {Num(0), Num(5)}
ZeroQuotes ==
    UNION {{[n |-> n, col |-> [symbol |-> SymbolColumn("all", n), current_price |-> c,
                               previous_close |-> p]] :
                c \in [1..n -> ZeroPrices], p \in [1..n -> ZeroPrices]}
           \cup {[n |-> n, col |-> [current_price |-> c, previous_close |-> p]] :
                c \in [1..n -> ZeroPrices], p \in [1..n -> ZeroPrices]} : n \in 1..MaxRows}

InputFrames ==
    ShortHistorical \cup ShortQuotes \cup QuotesWithoutPreviousClose
        \cup LongHistorical \cup LongQuotes \cup LongCombined \cup GappedHistorical
        \cup ThresholdQuotes \cup ZeroQuotes

\* processing_stats = {'original_rows': ..., 'file_type': ..., 'steps': []}; file_type
\* comes from the path of the file, which the dataset does not have
NewStats(f) == [original_rows |-> f.n, steps |-> <<>>]

(* ---------------------------------------------------------------------- *)
(* Records kept about the run                                              *)
(* ---------------------------------------------------------------------- *)
\* state: "none" | "running" | "returned" | "raised"; log: the status_data of the
\* update_status calls of the cycle; events: data_processed events published; fault:
\* the step that raised
NoCycle ==
    [state |-> "none", log |-> <<>>, events |-> 0, summary_written |-> FALSE,
     fault |-> "none"]

\* attempted: inputs handed to process_stock_data; emitted: inputs for which it
\* succeeded; rediscovered / reprocessed: inputs that discovery returned / that were
\* processed after they had been emitted; started: 'started' statuses of this process;
\* delays: the sleeps of the connect_redis call in progress
NoHistory ==
    [attempted |-> {}, emitted |-> {}, rediscovered |-> {}, reprocessed |-> {},
     started |-> 0, delays |-> <<>>]

NoSummary == [written |-> FALSE, files |-> <<>>, total_files_processed |-> 0]

\* the cycle record after update_status(status_data)
Logged(c, status_data) == [c EXCEPT !.log = Append(@, status_data)]

(* ---------------------------------------------------------------------- *)
(* Initial state                                                           *)
(* ---------------------------------------------------------------------- *)
Quotes(token) == MkName(QuotePrefix \o token, "csv")
Historical(token) == MkName(HistoricalPrefix \o token, "csv")

\* the data directory when the services start: input files put there earlier
InitialDirectories ==
    { <<>>,
      (Quotes(<<"T1">>) :> "good") @@ (Quotes(<<"T2">>) :> "good"),
      (Quotes(<<"T1">>) :> "good") @@ (Historical(<<"T1">>) :> "bad"),
      (Quotes(<<"T1">>) :> "bad"),
      (Quotes(<<"quotes", "T1">>) :> "good") }

\* datetime.now().strftime('%Y%m%d_%H%M%S') of the successive fetches
FetchTimestamps ==
    << <<"20240101", "120000">>, <<"20240102", "120000">>,
       <<"20240102", "121500">>, <<"20240102", "123000">> >>

max_retries == 10
retry_delay == 5

\* int(os.getenv('PROCESSING_INTERVAL', 30))
processing_interval == 30

Init ==
    /\ raw \in InitialDirectories
    /\ outputs = <<>>
    /\ batch_summary = NoSummary
    /\ status_store = <<>>
    /\ queue = <<>>
    /\ clean_pc = "connect"
    /\ attempt = 0
    /\ caller = "startup"
    /\ unprocessed_files = <<>>
    /\ idx = 1
    /\ processed_files = <<>>
    /\ results = <<>>
    /\ cycle = NoCycle
    /\ last_msg = NoMsg
    /\ history = NoHistory
    /\ env_events = 0
    /\ ingest_pc = "idle"
    /\ ingest_status = <<>>
    /\ fetches = 0
    /\ frame_pc = "none"
    /\ input_df = NoFrame
    /\ df = NoFrame
    /\ processing_stats = NewStats(NoFrame)

(* ---------------------------------------------------------------------- *)
(* The clean service                                                       *)
(* ---------------------------------------------------------------------- *)
\* a client with a subscription to data_pipeline receives what is published
Subscribed == clean_pc \notin {"connect", "crashed", "exited"}
Deliver(q, data) == IF Subscribed THEN Append(q, Message(data)) ELSE q

\* connect_redis without the limit of the loop: every failed attempt is retried
ConnectRedisForever ==
    /\ clean_pc = "connect"
    /\ \/ /\ clean_pc' = "run"
          /\ queue' = <<SubscribeMsg>>
          /\ attempt' = 0
          /\ history' = [history EXCEPT !.delays = <<>>]
       \/ /\ UNCHANGED <<queue, clean_pc>>
          /\ attempt' = attempt + 1
          /\ history' = [history EXCEPT !.delays = Append(@, retry_delay)]
    /\ UNCHANGED <<diskVars, status_store, caller, unprocessed_files, idx, processed_files,
                   results, cycle, last_msg, env_events, ingestVars>>
    /\ UNCHANGED frameVars

\* connect_redis: one attempt of the retry loop. The attempt counter and the sleeps are
\* locals of the call: they are gone when it returns
ConnectRedis ==
    /\ clean_pc = "connect"
    /\ \/ /\ clean_pc' = "run"                   \* ping and subscribe succeed
          /\ queue' = <<SubscribeMsg>>
          /\ attempt' = 0
          /\ history' = [history EXCEPT !.delays = <<>>]
       \/ /\ UNCHANGED queue                      \* redis.ConnectionError
          /\ IF attempt < max_retries - 1
             THEN /\ attempt' = attempt + 1      \* time.sleep(retry_delay)
                  /\ history' = [history EXCEPT !.delays = Append(@, retry_delay)]
                  /\ UNCHANGED clean_pc
             ELSE /\ clean_pc' = "exited"        \* sys.exit(1)
                  /\ UNCHANGED <<attempt, history>>
    /\ UNCHANGED <<diskVars, status_store, caller, unprocessed_files, idx, processed_files,
                   results, cycle, last_msg, env_events, ingestVars>>
    /\ UNCHANGED frameVars

\* run: the initial status, then the call of process_all_files
RunStart ==
    /\ clean_pc = "run"
    /\ status_store' = HSet(status_store, StatusStarted)
    /\ history' = [history EXCEPT !.started = @ + 1]
    /\ caller' = "startup"
    /\ clean_pc' = "cycle_begin"
    /\ UNCHANGED <<diskVars, queue, attempt, unprocessed_files, idx, processed_files,
                   results, cycle, last_msg, env_events, ingestVars>>
    /\ UNCHANGED frameVars

\* where process_all_files returns to
ReturnPc(c) == IF c = "startup" THEN "listen" ELSE "sleep"
\* where an exception leaving process_all_files arrives: run has no handler around
\* its first call; the one in the loop logs and goes on
RaisePc(c) == IF c = "startup" THEN "crashed" ELSE "loop_except"

\* if not unprocessed_files
NoWork(found) == found = <<>>

\* process_all_files up to the for loop: status, discovery, the idle return
ProcessAllFilesBegin ==
    /\ clean_pc = "cycle_begin"
    /\ \E found \in FindUnprocessedFiles(Directory) :
        /\ unprocessed_files' = found
        /\ history' = [history EXCEPT !.rediscovered =
                          @ \cup ({found[i] : i \in 1..Len(found)} \cap history.emitted)]
        /\ IF NoWork(found)
           THEN /\ status_store' = HSet(HSet(status_store, StatusProcessing), StatusIdle)
                /\ cycle' = [Logged(Logged(NoCycle, StatusProcessing), StatusIdle)
                                EXCEPT !.state = "returned"]
                /\ clean_pc' = ReturnPc(caller)
           ELSE /\ status_store' = HSet(status_store, StatusProcessing)
                /\ cycle' = [Logged(NoCycle, StatusProcessing) EXCEPT !.state = "running"]
                /\ clean_pc' = "process_file"
    /\ idx' = 1
    /\ processed_files' = <<>>
    /\ results' = <<>>
    /\ UNCHANGED <<diskVars, queue, attempt, caller, last_msg, env_events, ingestVars>>
    /\ UNCHANGED frameVars

\* how one run of process_stock_data on a file of this content may go (a file still
\* being written is empty, cut in a row, or a shorter table that parses):
\*   "read_error"  pd.read_csv or a computation raises, before anything is written
\*   "csv_error"   df.to_csv(output_file) raises
\*   "json_error"  open(summary_file, 'w') raises, after the CSV was written
\*   "ok"          both artifacts written
Outcomes(content) ==
    CASE content = "bad" -> {"read_error"}
      [] content = "partial" -> {"read_error", "ok", "csv_error", "json_error"}
      [] OTHER -> {"ok", "csv_error", "json_error"}

\* the outcomes that are I/O faults of the environment
IsFault(outcome) == outcome \in {"csv_error", "json_error"}

\* return True, processing_stats / return False, {'error': str(e)}
Returned(file, outcome) ==
    IF outcome = "ok"
    THEN [file |-> file, success |-> TRUE, stats |-> "processing_stats"]
    ELSE [file |-> file, success |-> FALSE, stats |-> "error"]

\* the artifacts of the data directory after process_stock_data(file)
WriteArtifacts(out, file, outcome) ==
    CASE outcome = "ok" ->
            (OutputFile(file) :> file) @@ (SummaryFile(file) :> file) @@ out
      [] outcome = "json_error" -> (OutputFile(file) :> file) @@ out
      [] OTHER -> out

CollectAll(files, result) == Append(files, result.file)

\* if success: processed_files.append(...); else: continue
Collect(files, result) == IF result.success THEN Append(files, result.file) ELSE files

\* the for loop goes on while files are left
LoopDone(i, files) == i >= Len(files)

AfterLoopAlways(files) == "write_summary"

\* if processed_files: ... else: ...
AfterLoop(files) == IF files # <<>> THEN "write_summary" ELSE "report_error"

\* one iteration of the for loop of process_all_files: process_stock_data(file_path)
ProcessStockData ==
    /\ clean_pc = "process_file"
    /\ LET file == unprocessed_files[idx] IN
       \E outcome \in Outcomes(raw[file]) :
        LET result == Returned(file, outcome)
            files == Collect(processed_files, result) IN
        /\ IsFault(outcome) => env_events < MaxEnvEvents
        /\ env_events' = IF IsFault(outcome) THEN env_events + 1 ELSE env_events
        /\ outputs' = WriteArtifacts(outputs, file, outcome)
        /\ results' = Append(results, result)
        /\ processed_files' = files
        /\ history' = [history EXCEPT
                          !.attempted = @ \cup {file},
                          !.reprocessed = @ \cup ({file} \cap history.emitted),
                          !.emitted = IF result.success THEN @ \cup {file} ELSE @]
        /\ IF LoopDone(idx, unprocessed_files)
           THEN clean_pc' = AfterLoop(files) /\ UNCHANGED idx
           ELSE idx' = idx + 1 /\ UNCHANGED clean_pc
    /\ UNCHANGED <<raw, batch_summary, status_store, queue, attempt, caller,
                   unprocessed_files, cycle, last_msg, ingestVars>>
    /\ UNCHANGED frameVars

\* summary = {...}; json.dump(summary, f) to stock_processing_summary.json
BatchSummary(files) ==
    [written |-> TRUE, files |-> files, total_files_processed |-> Len(files)]

WriteSummary ==
    /\ clean_pc = "write_summary"
    /\ \/ /\ batch_summary' = BatchSummary(processed_files)
          /\ cycle' = [cycle EXCEPT !.summary_written = TRUE]
          /\ clean_pc' = "status_completed"
          /\ UNCHANGED env_events
       \/ /\ env_events < MaxEnvEvents                          \* open or json.dump raises
          /\ env_events' = env_events + 1
          /\ cycle' = [cycle EXCEPT !.fault = "write_summary"]
          /\ clean_pc' = "except"
          /\ UNCHANGED batch_summary
    /\ UNCHANGED <<raw, outputs, status_store, queue, attempt, caller, unprocessed_files,
                   idx, processed_files, results, last_msg, history, ingestVars>>
    /\ UNCHANGED frameVars

UpdateStatusCompleted ==
    /\ clean_pc = "status_completed"
    /\ status_store' = HSet(status_store, StatusCompleted(Len(processed_files)))
    /\ cycle' = Logged(cycle, StatusCompleted(Len(processed_files)))
    /\ clean_pc' = "publish"
    /\ UNCHANGED <<diskVars, queue, attempt, caller, unprocessed_files, idx,
                   processed_files, results, last_msg, history, env_events, ingestVars>>
    /\ UNCHANGED frameVars

\* redis_client.publish('data_pipeline', {'event': 'data_processed', ...})
PublishDataProcessed ==
    /\ clean_pc = "publish"
    /\ \/ /\ queue' = Deliver(queue, DataProcessed)
          /\ cycle' = [cycle EXCEPT !.events = @ + 1, !.state = "returned"]
          /\ clean_pc' = ReturnPc(caller)
          /\ UNCHANGED env_events
       \/ /\ env_events < MaxEnvEvents                          \* redis.RedisError
          /\ env_events' = env_events + 1
          /\ cycle' = [cycle EXCEPT !.fault = "publish"]
          /\ clean_pc' = "except"
          /\ UNCHANGED queue
    /\ UNCHANGED <<diskVars, status_store, attempt, caller, unprocessed_files, idx,
                   processed_files, results, last_msg, history, ingestVars>>
    /\ UNCHANGED frameVars

\* the else branch: no file succeeded
ReportNoSuccess ==
    /\ clean_pc = "report_error"
    /\ status_store' = HSet(status_store, StatusErrorNone)
    /\ cycle' = [Logged(cycle, StatusErrorNone) EXCEPT !.state = "returned"]
    /\ clean_pc' = ReturnPc(caller)
    /\ UNCHANGED <<diskVars, queue, attempt, caller, unprocessed_files, idx,
                   processed_files, results, last_msg, history, env_events, ingestVars>>
    /\ UNCHANGED frameVars

\* [f['output_file'] for f in processed_files]: the entries have no 'output_file'
\* key, so the comprehension raises KeyError unless the list is empty
HandlerRaises(files) == files # <<>>

\* the first except clause of process_all_files (the second one, on the same try,
\* is never entered): status 'error', then the data_cleaned publish
ExceptHandler ==
    /\ clean_pc = "except"
    /\ status_store' = HSet(status_store, StatusErrorExc)
    /\ IF HandlerRaises(processed_files)
       THEN /\ cycle' = [Logged(cycle, StatusErrorExc) EXCEPT !.state = "raised"]
            /\ clean_pc' = RaisePc(caller)
            /\ UNCHANGED queue
       ELSE /\ cycle' = [Logged(cycle, StatusErrorExc) EXCEPT !.state = "returned"]
            /\ clean_pc' = ReturnPc(caller)
            /\ queue' = Deliver(queue, DataCleaned)
    /\ UNCHANGED <<diskVars, attempt, caller, unprocessed_files, idx, processed_files,
                   results, last_msg, history, env_events, ingestVars>>
    /\ UNCHANGED frameVars

\* what listen_for_events does with the message get_message returned:
\*   "cycle"   process_all_files is called
\*   "raise"   an exception that is neither JSONDecodeError nor RedisError leaves it
\*   "return"  it returns without doing anything
OnMessage(msg) ==
    IF msg.type # "message" THEN "return"
    ELSE IF JsonDecodeError(msg.data) THEN "return"
    ELSE IF ~HasGet(msg.data) THEN "raise"
    ELSE IF IsDataIngested(msg.data) THEN "cycle"
    ELSE "return"

\* listen_for_events: get_message(timeout=1) and the dispatch on the message
ListenForEvents ==
    /\ clean_pc = "listen"
    /\ IF queue = <<>>
       THEN /\ last_msg' = NoMsg
            /\ clean_pc' = "sleep"
            /\ UNCHANGED <<queue, caller>>
       ELSE /\ last_msg' = Head(queue)
            /\ queue' = Tail(queue)
            /\ CASE OnMessage(Head(queue)) = "cycle" ->
                        clean_pc' = "cycle_begin" /\ caller' = "listen"
                 [] OnMessage(Head(queue)) = "raise" ->
                        clean_pc' = "loop_except" /\ UNCHANGED caller
                 [] OTHER -> clean_pc' = "sleep" /\ UNCHANGED caller
    /\ unprocessed_files' = <<>>
    /\ idx' = 1
    /\ processed_files' = <<>>
    /\ results' = <<>>
    /\ cycle' = NoCycle
    /\ UNCHANGED <<diskVars, status_store, attempt, history, env_events, ingestVars>>
    /\ UNCHANGED frameVars

\* the locals of the calls of the finished iteration are gone
ForgetLocals ==
    /\ unprocessed_files' = <<>>
    /\ idx' = 1
    /\ processed_files' = <<>>
    /\ results' = <<>>
    /\ cycle' = NoCycle
    /\ last_msg' = NoMsg

\* what the main loop does when time.sleep(processing_interval) is over
AfterSleep == "listen"

\* the seconds an iteration of the main loop sleeps at its end:
\* time.sleep(self.processing_interval), or time.sleep(5) in except Exception
IterationSleep(pc) == IF pc = "loop_except" THEN 5 ELSE processing_interval

\* run: time.sleep(self.processing_interval), then the next iteration
Sleep ==
    /\ clean_pc = "sleep"
    /\ clean_pc' = AfterSleep
    /\ ForgetLocals
    /\ UNCHANGED <<diskVars, status_store, queue, attempt, caller, history, env_events,
                   ingestVars>>
    /\ UNCHANGED frameVars

\* run: except Exception: log, time.sleep(5), then the next iteration
LoopExcept ==
    /\ clean_pc = "loop_except"
    /\ clean_pc' = "listen"
    /\ ForgetLocals
    /\ UNCHANGED <<diskVars, status_store, queue, attempt, caller, history, env_events,
                   ingestVars>>
    /\ UNCHANGED frameVars

\* the process is terminated from outside, at any point, and started again
Restart ==
    /\ clean_pc # "connect"
    /\ env_events < MaxEnvEvents
    /\ env_events' = env_events + 1
    /\ clean_pc' = "connect"
    /\ queue' = <<>>
    /\ attempt' = 0
    /\ caller' = "startup"
    /\ unprocessed_files' = <<>>
    /\ idx' = 1
    /\ processed_files' = <<>>
    /\ results' = <<>>
    /\ cycle' = NoCycle
    /\ last_msg' = NoMsg
    /\ history' = [history EXCEPT !.started = 0, !.delays = <<>>]
    /\ UNCHANGED <<diskVars, status_store, ingestVars>>
    /\ UNCHANGED frameVars

(* ---------------------------------------------------------------------- *)
(* The ingest service and other publishers                                 *)
(* ---------------------------------------------------------------------- *)
\* fetch_stock_data: status 'fetching', then the API calls
FetchBegin ==
    /\ ingest_pc = "idle"
    /\ env_events < MaxEnvEvents
    /\ env_events' = env_events + 1
    /\ fetches' = fetches + 1
    /\ ingest_status' = <<"fetching">>
    /\ ingest_pc' = "fetching"
    /\ UNCHANGED <<diskVars, status_store, queue, clean_pc, cleanLocals, history>>
    /\ UNCHANGED frameVars

\* to_csv(path): open(path, 'w') creates the file; until the writer closes it the
\* directory shows a file that holds only part of the rows
OpenFile(dir, file) == (file :> "partial") @@ dir

\* the close at the end of to_csv: the file holds all its rows
CloseFile(dir, file) ==
    IF file \in DOMAIN dir THEN [dir EXCEPT ![file] = "good"] ELSE dir

\* fetch_stock_data: if all_quotes: quotes_df.to_csv(quotes_file) starts writing
FetchWriteQuotes ==
    /\ ingest_pc = "fetching"
    /\ raw' = OpenFile(raw, Quotes(FetchTimestamps[fetches]))
    /\ ingest_pc' = "writing_quotes"
    /\ UNCHANGED <<outputs, batch_summary, status_store, queue, clean_pc, cleanLocals,
                   history, env_events, ingest_status, fetches>>
    /\ UNCHANGED frameVars

\* fetch_stock_data: the quotes file, if any, is closed; if historical_records:
\* hist_df.to_csv(hist_file) starts writing
FetchWriteHistorical ==
    /\ ingest_pc \in {"fetching", "writing_quotes"}
    /\ raw' = OpenFile(CloseFile(raw, Quotes(FetchTimestamps[fetches])),
                       Historical(FetchTimestamps[fetches]))
    /\ ingest_pc' = "writing_historical"
    /\ UNCHANGED <<outputs, batch_summary, status_store, queue, clean_pc, cleanLocals,
                   history, env_events, ingest_status, fetches>>
    /\ UNCHANGED frameVars

\* fetch_stock_data: the last file written, if any, is closed; status 'completed'
FetchSave ==
    /\ ingest_pc \in {"fetching", "writing_quotes", "writing_historical"}
    /\ raw' = CloseFile(CloseFile(raw, Quotes(FetchTimestamps[fetches])),
                        Historical(FetchTimestamps[fetches]))
    /\ ingest_status' = Append(ingest_status, "completed")
    /\ ingest_pc' = "publish"
    /\ UNCHANGED <<outputs, batch_summary, status_store, queue, clean_pc, cleanLocals,
                   history, env_events, fetches>>
    /\ UNCHANGED frameVars

\* fetch_stock_data: publish of the comprehensive_data_ingested event
FetchPublish ==
    /\ ingest_pc = "publish"
    /\ queue' = Deliver(queue, ComprehensiveDataIngested)
    /\ ingest_pc' = "idle"
    /\ UNCHANGED <<diskVars, status_store, clean_pc, cleanLocals, history, env_events,
                   ingest_status, fetches>>
    /\ UNCHANGED frameVars

\* fetch_stock_data: except Exception: status 'error', return False
FetchError ==
    /\ ingest_pc \in {"fetching", "publish"}
    /\ ingest_status' = Append(ingest_status, "error")
    /\ ingest_pc' = "idle"
    /\ UNCHANGED <<diskVars, status_store, queue, clean_pc, cleanLocals, history,
                   env_events, fetches>>
    /\ UNCHANGED frameVars

\* fetch_stock_data: to_csv raises while it writes (an I/O fault of the environment):
\* the file stays as far as it was written; except Exception: status 'error'
FetchWriteError ==
    /\ ingest_pc \in {"writing_quotes", "writing_historical"}
    /\ env_events < MaxEnvEvents
    /\ env_events' = env_events + 1
    /\ ingest_status' = Append(ingest_status, "error")
    /\ ingest_pc' = "idle"
    /\ UNCHANGED <<diskVars, status_store, queue, clean_pc, cleanLocals, history, fetches>>
    /\ UNCHANGED frameVars

\* what another client of the bus may publish on data_pipeline
OtherPayloads ==
    {DataIngested, Payload("object", ""), Payload("invalid", ""), Payload("array", "")}

OtherPublish ==
    /\ env_events < MaxEnvEvents
    /\ env_events' = env_events + 1
    /\ \E data \in OtherPayloads : queue' = Deliver(queue, data)
    /\ UNCHANGED <<diskVars, status_store, clean_pc, cleanLocals, history, ingestVars>>
    /\ UNCHANGED frameVars

(* ---------------------------------------------------------------------- *)
(* Specifications                                                          *)
(* ---------------------------------------------------------------------- *)
CleanStep ==
    \/ ConnectRedis
    \/ RunStart
    \/ ProcessAllFilesBegin
    \/ ProcessStockData
    \/ WriteSummary
    \/ UpdateStatusCompleted
    \/ PublishDataProcessed
    \/ ReportNoSuccess
    \/ ExceptHandler
    \/ ListenForEvents
    \/ Sleep
    \/ LoopExcept

Next ==
    \/ ConnectRedis
    \/ RunStart
    \/ ProcessAllFilesBegin
    \/ ProcessStockData
    \/ WriteSummary
    \/ UpdateStatusCompleted
    \/ PublishDataProcessed
    \/ ReportNoSuccess
    \/ ExceptHandler
    \/ ListenForEvents
    \/ Sleep
    \/ LoopExcept
    \/ Restart
    \/ FetchBegin
    \/ FetchWriteQuotes
    \/ FetchWriteHistorical
    \/ FetchSave
    \/ FetchPublish
    \/ FetchError
    \/ FetchWriteError
    \/ OtherPublish

Spec == Init /\ [][Next]_vars

\* the clean service is a running process: it takes its next step
FairSpec == Spec /\ WF_vars(CleanStep)

(* ---------------------------------------------------------------------- *)
(* process_stock_data on one dataset, stage by stage                       *)
(* ---------------------------------------------------------------------- *)
\* df = pd.read_csv(file_path) has returned a dataset
FrameInit ==
    /\ raw = <<>>
    /\ outputs = <<>>
    /\ batch_summary = NoSummary
    /\ status_store = <<>>
    /\ queue = <<>>
    /\ clean_pc = "process_file"
    /\ attempt = 0
    /\ caller = "startup"
    /\ unprocessed_files = <<>>
    /\ idx = 1
    /\ processed_files = <<>>
    /\ results = <<>>
    /\ cycle = NoCycle
    /\ last_msg = NoMsg
    /\ history = NoHistory
    /\ env_events = 0
    /\ ingest_pc = "idle"
    /\ ingest_status = <<>>
    /\ fetches = 0
    /\ frame_pc = "remove_duplicates"
    /\ input_df \in InputFrames
    /\ df = input_df
    /\ processing_stats = NewStats(input_df)

AddStep(stats, step) == [stats EXCEPT !.steps = Append(@, step)]

RemoveDuplicates ==
    /\ frame_pc = "remove_duplicates"
    /\ LET after == DropDuplicates(df) IN
        /\ df' = after
        /\ processing_stats' =
              IF df.n # after.n
              THEN AddStep(processing_stats, RemoveDuplicatesStep(df.n - after.n))
              ELSE processing_stats
    /\ frame_pc' = "handle_missing_values"
    /\ UNCHANGED <<input_df, pipelineVars>>

HandleMissingValues ==
    /\ frame_pc = "handle_missing_values"
    /\ LET numeric_columns == NumericColumns(df)
           missing_before == NullCount(df, numeric_columns)
           after == Impute(df)
       IN IF missing_before > 0
          THEN /\ df' = after
               /\ processing_stats' =
                     AddStep(processing_stats,
                             HandleMissingStep(missing_before,
                                               NullCount(after, numeric_columns)))
          ELSE UNCHANGED <<df, processing_stats>>
    /\ frame_pc' = "technical_indicators"
    /\ UNCHANGED <<input_df, pipelineVars>>

TechnicalIndicators ==
    /\ frame_pc = "technical_indicators"
    /\ IF WantsIndicators(df)
       THEN /\ df' = CalculateTechnicalIndicators(df)
            /\ processing_stats' = AddStep(processing_stats, TechnicalIndicatorsStep)
       ELSE UNCHANGED <<df, processing_stats>>
    /\ frame_pc' = "market_analysis"
    /\ UNCHANGED <<input_df, pipelineVars>>

\* the exception leaves through except Exception: return False, {'error': str(e)}
MarketAnalysis ==
    /\ frame_pc = "market_analysis"
    /\ IF "current_price" \in Columns(df)
       THEN IF AnalysisRaises(df)
            THEN /\ frame_pc' = "failed"
                 /\ UNCHANGED <<df, processing_stats>>
            ELSE /\ df' = AddMarketAnalysis(df)
                 /\ processing_stats' = AddStep(processing_stats, MarketAnalysisStep)
                 /\ frame_pc' = "data_quality"
       ELSE /\ frame_pc' = "data_quality"
            /\ UNCHANGED <<df, processing_stats>>
    /\ UNCHANGED <<input_df, pipelineVars>>

\* final_rows, data_quality_score; the two artifacts are written from df and
\* processing_stats, and the function returns True, processing_stats
DataQuality ==
    /\ frame_pc = "data_quality"
    /\ processing_stats' =
          [original_rows |-> processing_stats.original_rows,
           steps |-> processing_stats.steps,
           final_rows |-> df.n,
           data_quality_score |-> DataQualityScore(df)]
    /\ frame_pc' = "done"
    /\ UNCHANGED <<input_df, df, pipelineVars>>

FrameNext ==
    \/ RemoveDuplicates
    \/ HandleMissingValues
    \/ TechnicalIndicators
    \/ MarketAnalysis
    \/ DataQuality

\* process_stock_data run on every dataset of InputFrames
FrameSpec == FrameInit /\ [][FrameNext]_vars

(* ---------------------------------------------------------------------- *)
(* Properties                                                              *)
(* ---------------------------------------------------------------------- *)
Range(seq) == {seq[i] : i \in 1..Len(seq)}
Last(seq) == seq[Len(seq)]

\* the status values the cycle has written, in order
StatusLog == [i \in 1..Len(cycle.log) |-> cycle.log[i].status]

\* process_all_files has finished, by returning or by raising
Finished == cycle.state \in {"returned", "raised"}

\* the step of process_all_files that runs discovery
DiscoveryStep == clean_pc = "cycle_begin" /\ cycle'.state # "none"

\* the input files of a directory, and the token of an input: its name without the
\* kind prefix and the extension
IsInput(name) ==
    GlobMatch(name, QuotePrefix, "csv") \/ GlobMatch(name, HistoricalPrefix, "csv")
InputToken(name) == SubSeq(name.segs, 3, Len(name.segs))
InputKind(name) == name.segs[2]

\* the token of an output processed_<kind>_<token>.csv: its name without the type
\* prefix and the extension
OutputToken(name) == SubSeq(name.segs, 3, Len(name.segs))
OutputTokens(dir) ==
    {OutputToken(n) : n \in {m \in dir : GlobMatch(m, ProcessedPrefix, "csv")}}

\* C1: an input for which process_stock_data once succeeded is never returned by a
\* later discovery and never processed again.
C1_ProcessedAtMostOnce == history.rediscovered = {} /\ history.reprocessed = {}

\* C2: discovery returns exactly the inputs whose token is not the token of any
\* processed_* output (with processed_quotes_T1.csv present, stock_quotes_T1.csv is
\* not returned).
C2_UnprocessedIffTokenAbsent ==
    [][DiscoveryStep =>
          Range(unprocessed_files') =
              {n \in Directory : IsInput(n) /\ InputToken(n) \notin OutputTokens(Directory)}]_vars

\* C3: every input that was processed with success has the artifacts
\* processed_<kind>_<token>.csv and processing_summary_<kind>_<token>.json, with its
\* whole token.
C3_OutputCarriesToken ==
    \A f \in history.emitted :
        /\ MkName(<<"processed", InputKind(f)>> \o InputToken(f), "csv") \in DOMAIN outputs
        /\ MkName(<<"processing", "summary", InputKind(f)>> \o InputToken(f), "json")
              \in DOMAIN outputs

\* the inputs of the results that report success, in order
RECURSIVE Succeeded(_)
Succeeded(rs) ==
    IF rs = <<>> THEN <<>>
    ELSE IF Head(rs).success THEN <<Head(rs).file>> \o Succeeded(Tail(rs))
         ELSE Succeeded(Tail(rs))

\* the for loop of the cycle is over
LoopOver == cycle.state # "none" /\ clean_pc # "process_file"

\* C4: a failing file does not abort the batch: once the loop is over every discovered
\* file was attempted, each failure returned (False, {error}), and the batch summary
\* lists exactly the files that succeeded.
C4_FailureDoesNotAbortBatch ==
    /\ cycle.state # "none" =>
          /\ Len(results) <= Len(unprocessed_files)
          /\ \A i \in 1..Len(results) :
                /\ results[i].file = unprocessed_files[i]
                /\ ~results[i].success => results[i].stats = "error"
          /\ processed_files = Succeeded(results)
    /\ LoopOver => Len(results) = Len(unprocessed_files)
    /\ cycle.summary_written =>
          /\ batch_summary.files = Succeeded(results)
          /\ batch_summary.total_files_processed = Len(Succeeded(results))

\* a batch in which a file failed before another one succeeded, and whose summary is
\* written
C4_Witness ==
    /\ cycle.summary_written
    /\ \E i, j \in 1..Len(results) : i < j /\ ~results[i].success /\ results[j].success

SomeSuccess == \E i \in 1..Len(results) : results[i].success

CompletedWithEvent ==
    /\ Last(StatusLog) = "completed"
    /\ cycle.summary_written
    /\ cycle.events = 1

ErrorWithoutEvent ==
    /\ Last(StatusLog) = "error"
    /\ "message" \in DOMAIN Last(cycle.log)
    /\ cycle.events = 0
    /\ cycle.state = "returned"

C7_IngestEventTriggersCycle ==
    (clean_pc = "sleep" /\ last_msg = Message(ComprehensiveDataIngested)) =>
        cycle.state # "none"

\* the clean service has stopped for good
Terminated == clean_pc \in {"crashed", "exited"}

\* C8: an input that is in the data directory while the service sleeps in its loop
\* is eventually handed to process_stock_data, whatever arrives on the bus.
C8_IntervalProcessing ==
    \A k \in 1..MaxEnvEvents :
        [](Quotes(FetchTimestamps[k]) \in DOMAIN raw /\ clean_pc = "sleep"
              => <>(Quotes(FetchTimestamps[k]) \in history.attempted \/ Terminated))

\* C9: process_all_files never raises and the service does not die of a cycle.
C9_CycleNeverRaises == cycle.state # "raised" /\ clean_pc # "crashed"

\* a payload that is not a JSON object with an event field
Malformed(msg) ==
    /\ msg.type = "message"
    /\ JsonDecodeError(msg.data) \/ ~HasGet(msg.data) \/ msg.data.event = ""

\* C10: on a malformed payload listen_for_events returns normally (the loop goes to
\* its sleep), starts no cycle and changes neither files nor status.
C10_MalformedDiscarded ==
    [][(clean_pc = "listen" /\ clean_pc' \notin {"listen", "connect"}
           /\ queue # <<>> /\ Malformed(Head(queue)))
          => (clean_pc' = "sleep" /\ UNCHANGED <<diskVars, status_store>>)]_vars

(* ---------------------------------------------------------------------- *)
\* the attempts of connect_redis that have failed so far
FailedAttempts == IF clean_pc = "exited" THEN attempt + 1 ELSE attempt

\* C11: connect_redis makes at most 10 attempts, sleeps the same fixed delay between
\* two consecutive attempts (so every retry is counted, and the loop ends), returns at
\* the first attempt that succeeds with the subscription to data_pipeline in place,
\* and the process exits exactly when all 10 attempts failed
C11_ConnectBounded ==
    /\ FailedAttempts <= 10
    /\ clean_pc = "connect" => attempt < 10
    /\ clean_pc \in {"connect", "exited"} =>
          /\ Len(history.delays) = attempt
          /\ \A i \in 1..Len(history.delays) : history.delays[i] = 5
    /\ clean_pc = "exited" <=> FailedAttempts = 10
    /\ clean_pc = "run" => queue # <<>> /\ queue[1] = SubscribeMsg

\* connect_redis has given up after the last attempt
C11_Witness ==
    /\ clean_pc = "exited"
    /\ attempt = 9
    /\ history.delays = [i \in 1..9 |-> 5]

(* ---------------------------------------------------------------------- *)
\* the step in which process_stock_data returns for one input
ProcessStep == clean_pc = "process_file" /\ Len(results') = Len(results) + 1

\* C12: when process_stock_data returns for an input, either it reports success and
\* both artifacts of the input (enriched CSV, processing-summary JSON) exist, or it
\* reports failure and it has written neither of them
C12_AllOrNothing ==
    [][ProcessStep =>
         LET result == Last(results') IN
         IF result.success
         THEN {OutputFile(result.file), SummaryFile(result.file)} \subseteq DOMAIN outputs'
         ELSE outputs' = outputs]_vars

(* ---------------------------------------------------------------------- *)
\* the process is terminated and started again; the first discovery of a process
RestartStep == clean_pc # "connect" /\ clean_pc' = "connect"
FirstDiscovery == DiscoveryStep /\ caller = "startup"

\* the inputs whose enriched CSV has been written
EmittedInputs ==
    history.emitted \cup
    {outputs[o] : o \in {m \in DOMAIN outputs : GlobMatch(m, ProcessedPrefix, "csv")}}

\* C13: a termination and restart of the clean service, at any point, leaves the
\* input files as they are, and the first cycle of the restarted process works on
\* exactly the inputs whose output had not been emitted: no input whose output was
\* written before the interruption is taken up again
C13_RestartResumes ==
    [][/\ RestartStep => raw' = raw
       /\ FirstDiscovery =>
             /\ raw' = raw
             /\ Range(unprocessed_files') =
                   {n \in Directory : IsInput(n)} \ EmittedInputs]_vars

(* ---------------------------------------------------------------------- *)
\* C14: every update_status replaces the status record: the stored record holds
\* exactly the fields of the last call, so no field of an earlier state (such as
\* files_processed of a 'completed' cycle) outlives a later write
C14_StatusReplaced == cycle.log # <<>> => status_store = Last(cycle.log)

C16_QuotesFirst ==
    \A i, j \in 1..Len(unprocessed_files) :
        /\ InputKind(unprocessed_files[i]) = "quotes"
        /\ InputKind(unprocessed_files[j]) = "historical"
        => i < j

\* the cycle has processed a quote file and is at a historical file
C16_Witness ==
    /\ clean_pc = "process_file"
    /\ idx = 2
    /\ InputKind(unprocessed_files[1]) = "quotes"
    /\ InputKind(unprocessed_files[2]) = "historical"

(* ---------------------------------------------------------------------- *)
\* the names of the logged steps, and the place of a step in the pipeline
StepNames(stats) == [i \in 1..Len(stats.steps) |-> stats.steps[i].step]
StepRank(name) ==
    CASE name = "remove_duplicates" -> 1
      [] name = "handle_missing_values" -> 2
      [] name = "technical_indicators" -> 3
      [] name = "market_analysis" -> 4
StepOf(stats, name) ==
    stats.steps[CHOOSE i \in 1..Len(stats.steps) : stats.steps[i].step = name]
\* the numeric cells of a dataset that are missing
MissingNumeric(f) ==
    {p \in Columns(f) \X (1..f.n) : IsNumeric(f, p[1]) /\ IsNull(f.col[p[1]][p[2]])}
DistinctRows(f) == {Row(f, i) : i \in 1..f.n}

\* C17: the step log is in the order remove_duplicates, handle_missing_values,
\* technical_indicators, market_analysis, each at most once; remove_duplicates is
\* logged iff a duplicate row was removed, handle_missing_values iff a numeric cell
\* was missing after deduplication, and its missing_after is at most missing_before
C17_StepLog ==
    [][LET names == StepNames(processing_stats')
           logged(name) == name \in Range(names)
       IN /\ \A i, j \in 1..Len(names) : i < j => StepRank(names[i]) < StepRank(names[j])
          /\ frame_pc = "remove_duplicates" =>
                /\ logged("remove_duplicates") <=> Cardinality(DistinctRows(df)) < df.n
                /\ logged("remove_duplicates") <=> df'.n < df.n
          /\ frame_pc = "handle_missing_values" =>
                /\ logged("handle_missing_values") <=> MissingNumeric(df) # {}
                /\ logged("handle_missing_values") =>
                      LET step == StepOf(processing_stats', "handle_missing_values")
                      IN /\ step.missing_before = Cardinality(MissingNumeric(df))
                         /\ step.missing_after = Cardinality(MissingNumeric(df'))
                         /\ step.missing_after <= step.missing_before]_vars

\* a dataset went through all four stages, and each logged its step
C17_Witness ==
    /\ frame_pc = "done"
    /\ StepNames(processing_stats) =
          <<"remove_duplicates", "handle_missing_values", "technical_indicators",
            "market_analysis">>

(* ---------------------------------------------------------------------- *)
AllNull(s) == \A i \in 1..Len(s) : IsNull(s[i])
NoNull(s) == \A i \in 1..Len(s) : ~IsNull(s[i])

\* C18: after the imputation stage every numeric column is without a missing value,
\* unless all its entries were missing before: then it stays entirely missing, the
\* stage completes, and a dataset fails only for the lack of the previous_close
\* column or for a previous_close of 0, never for a missing value
C18_ImputationComplete ==
    [][/\ frame_pc = "handle_missing_values" =>
            /\ frame_pc' = "technical_indicators"
            /\ \A c \in Columns(df) :
                  IsNumeric(df, c) =>
                     IF AllNull(df.col[c]) THEN AllNull(df'.col[c]) ELSE NoNull(df'.col[c])
       /\ frame_pc' = "failed" =>
             \/ "previous_close" \notin Columns(input_df)
             \/ Num(0) \in Range(input_df.col["previous_close"])]_vars

\* a dataset with an entirely missing close and a partly missing volume was
\* processed to the end
C18_Witness ==
    /\ frame_pc = "done"
    /\ input_df.col = [close |-> <<Null, Null>>, volume |-> <<Null, Num(10)>>]
    /\ df.col = [close |-> <<Null, Null>>, volume |-> <<Num(10), Num(10)>>]

(* ---------------------------------------------------------------------- *)
\* the nearest earlier value of row i of s, or else the first later one
Earlier(s, i) == {j \in 1..(i - 1) : ~IsNull(s[j])}
Later(s, i) == {j \in (i + 1)..Len(s) : ~IsNull(s[j])}
Nearest(s, i) ==
    IF Earlier(s, i) # {} THEN s[CHOOSE j \in Earlier(s, i) : \A k \in Earlier(s, i) : k <= j]
    ELSE IF Later(s, i) # {} THEN s[CHOOSE j \in Later(s, i) : \A k \in Later(s, i) : j <= k]
    ELSE Null

\* C19: in a price-like column the imputation replaces a missing value by the nearest
\* earlier value, or if there is none by the first later one, and leaves the other
\* entries as they are (close [null, 5, null, 7] becomes [5, 5, 5, 7])
C19_PriceFill ==
    [][frame_pc = "handle_missing_values" =>
         \A c \in Columns(df) \cap PriceColumns :
            IsNumeric(df, c) =>
               \A i \in 1..df.n :
                  df'.col[c][i] =
                     IF IsNull(df.col[c][i]) THEN Nearest(df.col[c], i) ELSE df.col[c][i]]_vars

\* the example of the claim, after the imputation stage
C19_Witness ==
    /\ frame_pc = "technical_indicators"
    /\ "close" \in Columns(input_df)
    /\ input_df.col["close"] = <<Null, Num(5), Null, Num(7)>>
    /\ df.col["close"] = <<Num(5), Num(5), Num(5), Num(7)>>

(* ---------------------------------------------------------------------- *)
\* C20: the indicator stage adds the indicator columns and logs technical_indicators
\* iff the dataset, after deduplication, has a close column and more than 20 rows;
\* otherwise it adds no column and logs no step
C20_IndicatorGate ==
    [][frame_pc = "technical_indicators" =>
         IF "close" \in Columns(df) /\ df.n > 20
         THEN /\ Columns(df') =
                    Columns(df) \cup
                    {"sma_5", "sma_20", "ema_12", "ema_26", "macd", "macd_signal",
                     "macd_histogram", "rsi", "bb_middle", "bb_upper", "bb_lower",
                     "daily_return", "volatility"}
              /\ Columns(df') # Columns(df)
              /\ StepNames(processing_stats') =
                    Append(StepNames(processing_stats), "technical_indicators")
         ELSE df' = df /\ processing_stats' = processing_stats]_vars

\* a file of 22 rows, two of them equal, got its indicators on 21 rows
C20_Witness ==
    /\ frame_pc = "market_analysis"
    /\ input_df.n = 22
    /\ df.n = 21
    /\ "sma_20" \in Columns(df)
    /\ "technical_indicators" \in Range(StepNames(processing_stats))

(* ---------------------------------------------------------------------- *)
\* a historical series of 25 rows, the close strictly increasing, no value missing
Values25(f, c) == [i \in 1..25 |-> f.col[c][i].num]
Rising25(f) ==
    /\ f.n = 25
    /\ "close" \in Columns(f)
    /\ "current_price" \notin Columns(f)
    /\ \A c \in Columns(f) : NoNull(f.col[c])
    /\ \A i \in 1..24 : Values25(f, "close")[i] < Values25(f, "close")[i + 1]
\* the null cells of the indicator columns of such a series: 4 of sma_5, 19 each of
\* sma_20, bb_middle, bb_upper and bb_lower, 13 of rsi, 1 of daily_return and 20 of
\* volatility
WarmUpNulls == 4 + 4 * 19 + 13 + 1 + 20
Sma20FromRow20(f) ==
    \A i \in 1..25 : IsNull(f.col["sma_20"][i]) <=> i < 20
EmaFromRow1(f) ==
    \A i \in 1..25 : ~IsNull(f.col["ema_12"][i]) /\ ~IsNull(f.col["ema_26"][i])

\* C21 as stated: such a series gets sma_20 from row 20 on, ema_12 and ema_26 from
\* row 1 on, and a quality score of exactly 100.0
C21_AsStated ==
    (frame_pc = "done" /\ Rising25(input_df)) =>
        /\ Sma20FromRow20(df)
        /\ EmaFromRow1(df)
        /\ processing_stats.data_quality_score = [nan |-> FALSE, hundredths |-> 10000]

\* C21, amended: such a series gets sma_20 from row 20 on and not before, ema_12 and
\* ema_26 from row 1 on, and a quality score below 100.0: the 114 missing warm-up
\* values of the 13 indicator columns count against completeness
C21_EndToEnd ==
    (frame_pc = "done" /\ Rising25(input_df)) =>
        LET cells == 25 * (Cardinality(Columns(input_df)) + 13)
            score == processing_stats.data_quality_score
        IN /\ Sma20FromRow20(df)
           /\ EmaFromRow1(df)
           /\ ~score.nan
           /\ score.hundredths = RoundHalfEven(10000 * (cells - WarmUpNulls), cells)
           /\ score.hundredths < 10000

\* the series with the columns close and volume is scored 69.6
C21_Witness ==
    /\ frame_pc = "done"
    /\ Rising25(input_df)
    /\ processing_stats.data_quality_score.hundredths = 6960

(* ---------------------------------------------------------------------- *)
\* the dataset f with the cell of column c and row i missing
WithNull(f, c, i) == [f EXCEPT !.col[c][i] = Null]

\* C22: the quality score is 100.0 for every dataset without a missing cell, it never
\* increases when a cell of a dataset of the same shape goes missing, and it always
\* lies in [0, 100]
C22_QualityScore ==
    frame_pc = "done" =>
        LET score == processing_stats.data_quality_score
        IN /\ ~score.nan
           /\ score.hundredths \in 0..10000
           /\ NullCount(df, Columns(df)) = 0 => score.hundredths = 10000
           /\ \A c \in Columns(df) : \A i \in 1..df.n :
                 LET fewer == DataQualityScore(WithNull(df, c, i))
                 IN ~fewer.nan /\ fewer.hundredths <= score.hundredths

(* ---------------------------------------------------------------------- *)
\* row k of a close series is below the row before it
Falls(close, k) ==
    k > 1 /\ ~IsNull(close[k]) /\ ~IsNull(close[k - 1]) /\ close[k].num < close[k - 1].num
\* the 14 rows up to row i hold no fall: the average loss is zero
ZeroLossWindow(close, i) == i >= 14 /\ \A k \in (i - 13)..i : ~Falls(close, k)
HasRsi == frame_pc \in {"market_analysis", "data_quality", "done"} /\ "rsi" \in Columns(df)

\* C23: every rsi value that is defined lies in [0, 100]; a window of 14 rows with
\* zero average loss gives 100, or no value when the average gain is zero too, and
\* raises nothing: no dataset with a close column fails
C23_RsiBounded ==
    /\ HasRsi =>
          \A i \in 1..df.n :
             LET rsi == df.col["rsi"][i]
             IN /\ ~IsNull(rsi) =>
                      /\ rsi.den > 0
                      /\ 0 <= rsi.num
                      /\ rsi.num <= 100 * rsi.den
                /\ ZeroLossWindow(df.col["close"], i) => rsi \in {Num(100), Null}
    /\ frame_pc = "failed" => "close" \notin Columns(input_df)

\* a series was processed to the end with an rsi of 100 on a window without a fall
C23_Witness ==
    /\ HasRsi
    /\ frame_pc = "done"
    /\ \E i \in 1..df.n : ZeroLossWindow(df.col["close"], i) /\ df.col["rsi"][i] = Num(100)

(* ---------------------------------------------------------------------- *)
\* the market analysis has run on a dataset of quotes
Analysed == frame_pc \in {"data_quality", "done"} /\ "current_price" \in Columns(df)
\* the label of row i, "" if it has none
LabelOf(f, i) ==
    IF "sentiment" \in Columns(f) /\ f.col["sentiment"][i].kind = "str"
    THEN f.col["sentiment"][i].text
    ELSE ""

\* C24: a quote row with a current_price and a previous_close gets exactly one label,
\* from its percentage change c: Strong Bullish iff c > 2, Bullish iff 0 < c <= 2,
\* Bearish iff -2 < c <= 0, Strong Bearish iff c <= -2; a row that lacks one of the
\* two values gets no label
C24_SentimentLabels ==
    /\ Analysed =>
          \A i \in 1..df.n :
             LET cp == df.col["current_price"][i]
                 pc == df.col["previous_close"][i]
                 n == (cp.num * pc.den - pc.num * cp.den) * 100
                 d == pc.num * cp.den
                 label == LabelOf(df, i)
             IN IF Priced(df, i)
                THEN /\ d > 0
                     /\ label \in {"Strong Bullish", "Bullish", "Bearish", "Strong Bearish"}
                     /\ label = "Strong Bullish" <=> n > 2 * d
                     /\ label = "Bullish" <=> (0 < n /\ n <= 2 * d)
                     /\ label = "Bearish" <=> (0 - 2 * d < n /\ n <= 0)
                     /\ label = "Strong Bearish" <=> n <= 0 - 2 * d
                ELSE label = ""
    /\ frame_pc = "failed" => "previous_close" \notin Columns(input_df)

(* ---------------------------------------------------------------------- *)
\* C25: two distinct inputs of the same kind never have the same output name, and no
\* artifact of an input is ever overwritten by the artifact of a different input
C25_OutputNamesDistinct ==
    [][/\ \A a, b \in DOMAIN raw' :
            (a # b /\ IsInput(a) /\ IsInput(b) /\ InputKind(a) = InputKind(b)) =>
               /\ OutputFile(a) # OutputFile(b)
               /\ SummaryFile(a) # SummaryFile(b)
       /\ \A o \in DOMAIN outputs : o \in DOMAIN outputs' /\ outputs'[o] = outputs[o]]_vars

(* ---------------------------------------------------------------------- *)
\* C26: the clean service never reads an input that the ingest service has not finished
\* writing: the file that process_stock_data reads is complete when it is read
C26_ReadsCompleteFiles ==
    [][ProcessStep => raw[unprocessed_files[idx]] # "partial"]_vars

(* ---------------------------------------------------------------------- *)
\* the steps of a successful cycle that write status 'completed' and that publish
\* the data_processed event
CompletedStep == clean_pc = "status_completed" /\ clean_pc' = "publish"
EventStep == clean_pc = "publish" /\ cycle'.events = cycle.events + 1

\* both artifacts of an input are in the data directory
ArtifactsOnDisk(dir, file) ==
    /\ OutputFile(file) \in DOMAIN dir /\ dir[OutputFile(file)] = file
    /\ SummaryFile(file) \in DOMAIN dir /\ dir[SummaryFile(file)] = file

\* the order of the writes of a successful cycle alone
WriteOrder ==
    [][/\ CompletedStep =>
             /\ cycle.summary_written /\ batch_summary.written
             /\ \A file \in Range(processed_files) :
                   OutputFile(file) \in DOMAIN outputs /\ SummaryFile(file) \in DOMAIN outputs
             /\ "completed" \notin Range(StatusLog)
       /\ EventStep => Last(StatusLog) = "completed"]_vars

\* C27: in a successful cycle every per-file artifact and the batch summary are written
\* before status 'completed', and status 'completed' before the data_processed event, so
\* that when the event is sent all artifacts of the inputs of the cycle are on disk
C27_ArtifactsThenStatusThenEvent ==
    [][/\ CompletedStep =>
             /\ cycle.summary_written /\ batch_summary.written
             /\ \A file \in Range(processed_files) : ArtifactsOnDisk(outputs, file)
       /\ EventStep =>
             /\ Last(StatusLog) = "completed"
             /\ batch_summary'.files = processed_files
             /\ \A file \in Range(processed_files) : ArtifactsOnDisk(outputs', file)]_vars

(* ---------------------------------------------------------------------- *)
\* the events the clean service publishes itself, and the positions of a cycle
OwnEvents == {DataProcessed, DataCleaned}
InCycle ==
    clean_pc \in {"cycle_begin", "process_file", "write_summary", "status_completed",
                  "publish", "report_error", "except"}

\* C28: the clean service receives its own events on the channel it publishes to, but
\* a cycle called from listen_for_events is always the answer to a message whose event
\* field is 'data_ingested', never to one of its own events
C28_OwnEventsNeverTrigger ==
    (InCycle /\ caller = "listen") =>
        /\ last_msg.type = "message"
        /\ last_msg.data.json = "object"
        /\ last_msg.data.event = "data_ingested"
        /\ last_msg.data \notin OwnEvents

\* the service has dequeued its own data_processed event and goes to sleep
C28_Witness ==
    /\ last_msg = Message(DataProcessed)
    /\ clean_pc = "sleep"
    /\ cycle = NoCycle

(* ---------------------------------------------------------------------- *)
\* the steps of the ingest service that end a fetch, and that publish its event
FetchEnds == ingest_pc # "idle" /\ ingest_pc' = "idle"
FetchEventStep == ingest_pc = "publish" /\ ingest_pc' = "idle" /\ ingest_status' = ingest_status

\* the final statuses a fetch has written
FinalStatuses(log) == {i \in 1..Len(log) : log[i] \in {"completed", "error"}}

\* the files of the fetch in progress are written in full
FetchFilesComplete ==
    \A file \in {Quotes(FetchTimestamps[fetches]), Historical(FetchTimestamps[fetches])} :
        file \in DOMAIN raw => raw[file] = "good"

\* the event is published after the files and after status 'completed', and a fetch
\* with an event does not end in 'error'
EventAfterCompleted ==
    [][FetchEventStep =>
          /\ FetchFilesComplete
          /\ Last(ingest_status) = "completed"
          /\ "error" \notin Range(ingest_status')]_vars

\* C29: every fetch writes status 'fetching' first and ends with exactly one of
\* 'completed' and 'error'; its event is published only after its files are written and
\* after status 'completed', and never for a fetch that ends in 'error'
C29_FetchStatusAndEvent ==
    [][/\ FetchEnds =>
             /\ ingest_status'[1] = "fetching"
             /\ Cardinality(FinalStatuses(ingest_status')) = 1
       /\ FetchEventStep =>
             /\ FetchFilesComplete
             /\ Last(ingest_status) = "completed"
             /\ "error" \notin Range(ingest_status')]_vars

(* ---------------------------------------------------------------------- *)
\* the steps of the main loop: listen_for_events takes its message, the iteration ends
ListenStep == clean_pc = "listen" /\ clean_pc' \notin {"listen", "connect"}
IterationEnds == clean_pc \in {"sleep", "loop_except"} /\ clean_pc' = "listen"
CyclePositions ==
    {"cycle_begin", "process_file", "write_summary", "status_completed", "publish",
     "report_error", "except"}

\* one message and at most one cycle per iteration, messages in the order of the queue,
\* a data_ingested message acted on by the iteration that dequeues it, no cycle started
\* inside a cycle
IterationDiscipline ==
    [][/\ (Len(queue') < Len(queue) /\ clean_pc' # "connect") =>
             ListenStep /\ queue' = Tail(queue)
       /\ ListenStep =>
             /\ (queue # <<>> /\ Head(queue) = Message(DataIngested)) =>
                    clean_pc' = "cycle_begin"
             /\ clean_pc' = "cycle_begin" =>
                    queue # <<>> /\ Head(queue) = Message(DataIngested)
       /\ (clean_pc' = "cycle_begin" /\ clean_pc # "cycle_begin") =>
             clean_pc \in {"run", "listen"}
       /\ (clean_pc \in CyclePositions /\ caller = "listen"
              /\ clean_pc' \notin CyclePositions \cup {"connect"}) =>
             clean_pc' \in {"sleep", "loop_except"}]_vars

\* C30: every iteration of the main loop dequeues at most one message, the oldest, and
\* starts at most one cycle, a data_ingested message being acted on by the iteration
\* that dequeues it; cycles never overlap; and the iteration then sleeps the processing
\* interval
C30_OneMessagePerIteration ==
    [][/\ (Len(queue') < Len(queue) /\ clean_pc' # "connect") =>
             ListenStep /\ queue' = Tail(queue)
       /\ ListenStep =>
             /\ (queue # <<>> /\ Head(queue) = Message(DataIngested)) =>
                    clean_pc' = "cycle_begin"
             /\ clean_pc' = "cycle_begin" =>
                    queue # <<>> /\ Head(queue) = Message(DataIngested)
       /\ (clean_pc' = "cycle_begin" /\ clean_pc # "cycle_begin") =>
             clean_pc \in {"run", "listen"}
       /\ (clean_pc \in CyclePositions /\ caller = "listen"
              /\ clean_pc' \notin CyclePositions \cup {"connect"}) =>
             clean_pc' \in {"sleep", "loop_except"}
       /\ IterationEnds => IterationSleep(clean_pc) = processing_interval]_vars

====
